---- MODULE Spec2Model ----
(***************************************************************************)
(* Model of crates/libs/core/src/event.rs: Event<T>, a registry of         *)
(* delegates kept in a reference-counted copy-on-write Array, published    *)
(* under the swap mutex and rebuilt under the change mutex.                *)
(*                                                                         *)
(* Every thread runs the operations add / remove / clear / call; each      *)
(* running operation is a frame on the thread's stack (call pushes a       *)
(* remove frame when it revokes a delegate whose target is gone).          *)
(***************************************************************************)
EXTENDS Integers, Sequences, FiniteSets, TLC

(* Definitions named X_Suffix next to a definition X (SwapFree_Unguarded,   *)
(* push_arr_NoLen, ...) are faulty variants of X: the properties below are *)
(* also checked to fail when X is replaced by its variant.                 *)

(* ------------------------------ bounds --------------------------------- *)
MaxOps == 4        \* operations started in a run of Spec (two threads)
MaxOpsSeq == 6     \* operations started in a run of SpecSeq (one thread)
MaxBuf == 4        \* blocks the allocator can have handed out at a time
MaxRef == 1        \* agile references the marshaller can create
MaxOpsFair == 3    \* operations started in a run of SpecFair and SpecStuck
MaxNest == 1       \* depth up to which a call's callback uses the Event again

Threads == {1, 2}
Targets == {1, 2}        \* the callback targets a caller can pass to add
Agile == {1}             \* targets whose cast to IAgileObject succeeds
Owner(x) == x            \* the thread a target belongs to

(* ------------------------------ values --------------------------------- *)
TargetPtr(x) == x
RefPtr(k) == Cardinality(Targets) + k
Pointers == 1..(Cardinality(Targets) + MaxRef)

\* imp::EncodePointer (kernel32): an injective, process-specific scrambling of
\* a pointer; an injective map that is not the identity stands for it
EncodePointer(p) == 16 * p + 5
DecodePointer(v) == (v - 5) \div 16
Tokens == {EncodePointer(p) : p \in Pointers}
\* the thread a token belongs to: an agile target's own pointer, or else the
\* pointer of an agile reference, made for a target that is not agile
TokenOwner(v) ==
  IF DecodePointer(v) \in {TargetPtr(x) : x \in Agile}
  THEN Owner(DecodePointer(v))
  ELSE Owner(CHOOSE x \in Targets \ Agile : TRUE)

Direct(x) == [kind |-> "Direct", ptr |-> TargetPtr(x)]
Indirect(k) == [kind |-> "Indirect", ptr |-> RefPtr(k)]
Uninit == [kind |-> "Uninit", ptr |-> 0]

to_token(d) == EncodePointer(d.ptr)

GoneCodes == {"RPC_E_DISCONNECTED", "JSCRIPT_E_CANTEXECUTE", "RPC_E_SERVER_UNAVAILABLE"}
CallbackResults == {"Ok", "E_FAIL"} \cup GoneCodes

Array_new == [buffer |-> 0, len |-> 0]
\* a block of the allocator; pub is history: the length the block was
\* published with by Array::swap, -1 while it never was
FreeBlock == [live |-> FALSE, rc |-> 0, cap |-> 0, slots |-> <<>>, pub |-> -1]

VARIABLES
  delegates,   \* Event.delegates: the current Array [buffer, len]
  heap,        \* the allocator's blocks: Buffer header (rc), capacity, slots
               \* (and the history field pub)
  swap,        \* Event.swap: 0 or the thread holding it
  change,      \* Event.change: 0 or the thread holding it
  stack,       \* per thread, the frames of the operations it is running
  budget,      \* operations that may still be started
  refs,        \* agile references created so far
  expected,    \* history: per token, registrations returned by add minus remove
  foreign,     \* history: some thread touched a target that is not its own
  rmCount,     \* history: per token, delegates removed since its last add
  maxOcc,      \* history: per token, registrations right after its last add
  sinceClear   \* history: "swapped"/"noop" once a clear returned, "none" once
               \* an add started

vars == <<delegates, heap, swap, change, stack, budget, refs,
          expected, foreign, rmCount, maxOcc, sinceClear>>

(* ------------------------------ Array / Buffer ------------------------- *)
Slot(h, b, k) ==
  IF b \in DOMAIN h /\ h[b].live /\ k >= 1 /\ k <= Len(h[b].slots)
  THEN h[b].slots[k] ELSE Uninit

is_empty(a) == a.len = 0

as_slice(h, a) ==
  IF is_empty(a) THEN <<>> ELSE [k \in 1..a.len |-> Slot(h, a.buffer, k)]

\* an allocator that hands out blocks that are in use
FreeIds_InUse(h) == DOMAIN h

FreeIds(h) == {b \in DOMAIN h : ~h[b].live}
LowestFree(h) == CHOOSE b \in FreeIds(h) : \A c \in FreeIds(h) : b <= c

\* heap_alloc: malloc answers `granted`; a null pointer is E_OUTOFMEMORY
heap_alloc(h, granted) == granted /\ FreeIds(h) # {}

\* a Buffer::new that allocates room for one delegate less than asked
Buffer_new_Short(h, n, granted) ==
  IF n - 1 = 0 THEN [ok |-> TRUE, ptr |-> 0, heap |-> h]
  ELSE IF heap_alloc(h, granted)
       THEN [ok |-> TRUE, ptr |-> LowestFree(h),
             heap |-> [h EXCEPT ![LowestFree(h)] =
                         [live |-> TRUE, rc |-> 1, cap |-> n - 1, slots |-> <<>>,
                          pub |-> -1]]]
       ELSE [ok |-> FALSE, ptr |-> 0, heap |-> h]

\* Buffer::new(len): [ok, ptr, heap]
Buffer_new(h, n, granted) ==
  IF n = 0 THEN [ok |-> TRUE, ptr |-> 0, heap |-> h]
  ELSE IF heap_alloc(h, granted)
       THEN [ok |-> TRUE, ptr |-> LowestFree(h),
             heap |-> [h EXCEPT ![LowestFree(h)] =
                         [live |-> TRUE, rc |-> 1, cap |-> n, slots |-> <<>>,
                          pub |-> -1]]]
       ELSE [ok |-> FALSE, ptr |-> 0, heap |-> h]

\* a push that forgets self.len += 1
push_arr_NoLen(a) == a

\* Array::push: the heap after writing slot len, and the Array after len += 1
push_heap(h, a, d) ==
  IF a.buffer \in DOMAIN h
  THEN [h EXCEPT ![a.buffer].slots = SubSeq(@, 1, a.len) \o <<d>>]
  ELSE h
push_arr(a) == [a EXCEPT !.len = a.len + 1]

\* Clone for Array: add_ref unless empty; the handle is copied
clone_heap(h, a) ==
  IF ~is_empty(a) /\ a.buffer \in DOMAIN h
  THEN [h EXCEPT ![a.buffer].rc = @ + 1] ELSE h

\* a drop that frees the buffer without looking at the count
drop_heap_NoCount(h, a) ==
  IF ~is_empty(a) /\ a.buffer \in DOMAIN h
  THEN [h EXCEPT ![a.buffer] = FreeBlock] ELSE h

\* Drop for Array: release unless empty; at zero destruct the slots and free
drop_heap(h, a) ==
  IF ~is_empty(a) /\ a.buffer \in DOMAIN h
  THEN IF h[a.buffer].rc - 1 = 0
       THEN [h EXCEPT ![a.buffer] = FreeBlock]
       ELSE [h EXCEPT ![a.buffer].rc = @ - 1]
  ELSE h

Snapshot(h, a) == [arr |-> a, items |-> as_slice(h, a)]

\* history: Array a has become the registry's current snapshot
Install(h, a) ==
  IF a.buffer \in DOMAIN h THEN [h EXCEPT ![a.buffer].pub = a.len] ELSE h

Count(s, v) == Cardinality({k \in 1..Len(s) : to_token(s[k]) = v})
HasToken(s, v) == \E k \in 1..Len(s) : to_token(s[k]) = v

(* ------------------------------ frames --------------------------------- *)
NewFrame(op, arg) ==
  [op |-> op, pc |-> "lock", arg |-> arg,
   cur |-> Array_new,        \* current_delegates.as_slice()
   nd |-> Array_new,         \* new_delegates / lock_free_calls
   lfd |-> Array_new,        \* _lock_free_drop
   capacity |-> 0, removed |-> FALSE, i |-> 0,
   err |-> "none",           \* the last invocation's result
   res |-> "pending",        \* the operation's result
   tok |-> 0,                \* the token add returns
   before |-> Snapshot(heap, Array_new),  \* history: snapshot at change.lock()
   tookSwap |-> FALSE,       \* history: this frame locked swap
   swapped |-> FALSE,        \* history: this frame exchanged the snapshot
   seen |-> {},              \* history: snapshots current inside call's lock
   gone |-> <<>>,            \* history: tokens whose invocation said "gone"
   afterClear |-> "none"]    \* history: sinceClear when call cloned

MaxDepth == 2   \* call, and the remove it runs for a delegate that is gone
Top(t) == stack[t][Len(stack[t])]
At(t, ops, pc) == stack[t] # <<>> /\ Top(t).op \in ops /\ Top(t).pc = pc
SetTop(t, f) == [stack EXCEPT ![t][Len(stack[t])] = f]
Writers == {"add", "remove", "clear"}

\* a mutex that does not exclude
ChangeFree_Unguarded == TRUE
\* Mutex::lock on self.change returns once no thread holds it
ChangeFree == change = 0

\* a mutex that does not exclude
SwapFree_Unguarded == TRUE
\* Mutex::lock on self.swap returns once no thread holds it
SwapFree == swap = 0

(* ------------------------------ starting an operation ------------------ *)
Start(t, op, arg) ==
  /\ stack[t] = <<>>
  /\ budget > 0
  /\ budget' = budget - 1
  /\ stack' = [stack EXCEPT ![t] = <<NewFrame(op, arg)>>]
  /\ UNCHANGED <<delegates, heap, swap, change, refs, expected, rmCount, maxOcc>>

StartAdd(t) ==
  \E x \in Targets :
    /\ Start(t, "add", x)
    /\ foreign' = (foreign \/ Owner(x) # t)
    /\ sinceClear' = "none"

StartRemove(t) ==
  \E v \in Tokens :
    /\ Start(t, "remove", v)
    /\ foreign' = (foreign \/ TokenOwner(v) # t)
    /\ UNCHANGED sinceClear

StartClear(t) ==
  /\ Start(t, "clear", 0)
  /\ foreign' = TRUE
  /\ UNCHANGED sinceClear

StartCall(t) ==
  /\ Start(t, "call", 0)
  /\ UNCHANGED <<foreign, sinceClear>>

(* ------------------------------ steps shared by the writers ------------ *)
\* self.change.lock()
LockChange(t) ==
  /\ At(t, Writers, "lock")
  /\ ChangeFree
  /\ change' = t
  /\ stack' = SetTop(t, [Top(t) EXCEPT
                !.pc = IF Top(t).op = "add" THEN "alloc" ELSE "check",
                !.before = Snapshot(heap, delegates)])
  /\ UNCHANGED <<delegates, heap, swap, budget, refs,
                 expected, foreign, rmCount, maxOcc, sinceClear>>

\* a writer that exchanges the snapshot under the change lock alone
LockSwap_Skipped(t) ==
  /\ At(t, Writers, "swaplock")
  /\ stack' = SetTop(t, [Top(t) EXCEPT !.pc = "swap_buf", !.tookSwap = TRUE])
  /\ UNCHANGED <<delegates, heap, swap, change, budget, refs,
                 expected, foreign, rmCount, maxOcc, sinceClear>>

\* self.swap.lock() in add, remove and clear
LockSwap(t) ==
  /\ At(t, Writers, "swaplock")
  /\ SwapFree
  /\ swap' = t
  /\ stack' = SetTop(t, [Top(t) EXCEPT !.pc = "swap_buf", !.tookSwap = TRUE])
  /\ UNCHANGED <<delegates, heap, change, budget, refs,
                 expected, foreign, rmCount, maxOcc, sinceClear>>

\* Array::swap: core::mem::swap(&mut self.buffer, &mut other.buffer)
SwapBuffer(t) ==
  /\ At(t, Writers, "swap_buf")
  /\ delegates' = [delegates EXCEPT !.buffer = Top(t).nd.buffer]
  /\ stack' = SetTop(t, [Top(t) EXCEPT !.pc = "swap_len",
                                       !.nd.buffer = delegates.buffer])
  /\ UNCHANGED <<heap, swap, change, budget, refs,
                 expected, foreign, rmCount, maxOcc, sinceClear>>

\* a call inside its swap-lock section sees the snapshot just published
Observe(s, snap) ==
  IF s # <<>> /\ s[Len(s)].op = "call" /\ s[Len(s)].pc \in {"clone", "unlock"}
  THEN [s EXCEPT ![Len(s)].seen = @ \cup {snap}]
  ELSE s

\* Array::swap: core::mem::swap(&mut self.len, &mut other.len); other is
\* returned and assigned to _lock_free_drop
SwapLen(t) ==
  /\ At(t, Writers, "swap_len")
  /\ LET f == Top(t)
         published == [delegates EXCEPT !.len = f.nd.len]
         old == [f.nd EXCEPT !.len = delegates.len]
         g == [f EXCEPT !.pc = "unlock_swap", !.nd = Array_new,
                        !.lfd = old, !.swapped = TRUE]
     IN /\ delegates' = published
        /\ heap' = Install(drop_heap(heap, f.lfd), published)
        /\ stack' = [u \in DOMAIN stack |->
                       IF u = t THEN [stack[t] EXCEPT ![Len(stack[t])] = g]
                       ELSE Observe(stack[u], Snapshot(heap, published))]
        /\ rmCount' = IF f.op = "add" THEN [rmCount EXCEPT ![f.tok] = 0]
                      ELSE IF f.op = "remove"
                           THEN [rmCount EXCEPT ![f.arg] =
                                   @ + (delegates.len - f.nd.len)]
                           ELSE rmCount
        /\ maxOcc' = IF f.op = "add"
                     THEN [maxOcc EXCEPT ![f.tok] =
                             Count(as_slice(heap, published), f.tok)]
                     ELSE maxOcc
  /\ UNCHANGED <<swap, change, budget, refs, expected, foreign, sinceClear>>

\* guards declared in the wrong order: _change_lock is dropped first
UnlockSwap_WrongLock(t) ==
  /\ At(t, Writers, "unlock_swap")
  /\ change' = 0
  /\ stack' = SetTop(t, [Top(t) EXCEPT !.pc = "unlock_change"])
  /\ UNCHANGED <<delegates, heap, swap, budget, refs,
                 expected, foreign, rmCount, maxOcc, sinceClear>>

\* _swap_lock goes out of scope
UnlockSwap(t) ==
  /\ At(t, Writers, "unlock_swap")
  /\ swap' = 0
  /\ stack' = SetTop(t, [Top(t) EXCEPT !.pc = "unlock_change"])
  /\ UNCHANGED <<delegates, heap, change, budget, refs,
                 expected, foreign, rmCount, maxOcc, sinceClear>>

\* new_delegates declared outside the block: dropped once change is released
DropNew_AfterUnlock(t) ==
  /\ At(t, Writers, "drop_nd")
  /\ change' = 0
  /\ heap' = drop_heap(heap, Top(t).nd)
  /\ stack' = SetTop(t, [Top(t) EXCEPT !.pc = "drop_lfd", !.nd = Array_new])
  /\ UNCHANGED <<delegates, swap, budget, refs,
                 expected, foreign, rmCount, maxOcc, sinceClear>>

\* new_delegates goes out of scope (declared after _change_lock, so first)
DropNew(t) ==
  /\ At(t, Writers, "drop_nd")
  /\ heap' = drop_heap(heap, Top(t).nd)
  /\ stack' = SetTop(t, [Top(t) EXCEPT !.pc = "unlock_change", !.nd = Array_new])
  /\ UNCHANGED <<delegates, swap, change, budget, refs,
                 expected, foreign, rmCount, maxOcc, sinceClear>>

\* a guard that is forgotten instead of dropped: the mutex stays locked
UnlockChange_Forgets(t) ==
  /\ At(t, Writers, "unlock_change")
  /\ stack' = SetTop(t, [Top(t) EXCEPT !.pc = "drop_lfd"])
  /\ UNCHANGED <<delegates, heap, swap, change, budget, refs,
                 expected, foreign, rmCount, maxOcc, sinceClear>>

\* _change_lock goes out of scope
UnlockChange(t) ==
  /\ At(t, Writers, "unlock_change")
  /\ change' = 0
  /\ stack' = SetTop(t, [Top(t) EXCEPT !.pc = "drop_lfd"])
  /\ UNCHANGED <<delegates, heap, swap, budget, refs,
                 expected, foreign, rmCount, maxOcc, sinceClear>>

\* _lock_free_drop goes out of scope; the function returns
DropLockFree(t) ==
  /\ At(t, Writers, "drop_lfd")
  /\ heap' = drop_heap(heap, Top(t).lfd)
  /\ stack' = SetTop(t, [Top(t) EXCEPT
                !.pc = "ret", !.lfd = Array_new,
                !.res = IF Top(t).res = "pending" THEN "Ok" ELSE Top(t).res])
  /\ UNCHANGED <<delegates, swap, change, budget, refs,
                 expected, foreign, rmCount, maxOcc, sinceClear>>

(* ------------------------------ add ------------------------------------ *)
\* Array::with_capacity(current_delegates.len() + 1)?
AddAlloc(t) ==
  /\ At(t, {"add"}, "alloc")
  /\ \E granted \in BOOLEAN :
       LET f == Top(t)
           b == Buffer_new(heap, delegates.len + 1, granted)
       IN /\ heap' = b.heap
          /\ stack' = SetTop(t,
               IF b.ok
               THEN [f EXCEPT !.nd = [buffer |-> b.ptr, len |-> 0],
                              !.cur = delegates, !.i = 0,
                              !.pc = IF is_empty(delegates) THEN "new" ELSE "copy"]
               ELSE [f EXCEPT !.res = "E_OUTOFMEMORY", !.pc = "unlock_change"])
  /\ UNCHANGED <<delegates, swap, change, budget, refs,
                 expected, foreign, rmCount, maxOcc, sinceClear>>

\* for delegate in current_delegates.as_slice() { new_delegates.push(delegate.clone()) }
AddCopy(t) ==
  /\ At(t, {"add"}, "copy")
  /\ LET f == Top(t)
         d == Slot(heap, f.cur.buffer, f.i + 1)
     IN /\ heap' = push_heap(heap, f.nd, d)
        /\ stack' = SetTop(t, [f EXCEPT !.nd = push_arr(f.nd), !.i = f.i + 1,
                       !.pc = IF f.i + 1 < f.cur.len THEN "copy" ELSE "new"])
  /\ UNCHANGED <<delegates, swap, change, budget, refs,
                 expected, foreign, rmCount, maxOcc, sinceClear>>

\* Delegate::new(delegate)?: [ok, d]; AgileReference::new answers `made`
Delegate_new(x, made, n) ==
  IF x \in Agile THEN [ok |-> TRUE, d |-> Direct(x), refs |-> n]
  ELSE IF made /\ n < MaxRef
       THEN [ok |-> TRUE, d |-> Indirect(n + 1), refs |-> n + 1]
       ELSE [ok |-> FALSE, d |-> Uninit, refs |-> n]

\* Delegate::new(delegate)?; to_token(); new_delegates.push(delegate)
AddNew(t) ==
  /\ At(t, {"add"}, "new")
  /\ \E made \in BOOLEAN :
       LET f == Top(t)
           r == Delegate_new(f.arg, made, refs)
       IN /\ refs' = r.refs
          /\ heap' = IF r.ok THEN push_heap(heap, f.nd, r.d) ELSE heap
          /\ stack' = SetTop(t,
               IF r.ok
               THEN [f EXCEPT !.nd = push_arr(f.nd), !.tok = to_token(r.d),
                              !.pc = "swaplock"]
               ELSE [f EXCEPT !.res = "E_NOINTERFACE", !.pc = "drop_nd"])
  /\ UNCHANGED <<delegates, swap, change, budget,
                 expected, foreign, rmCount, maxOcc, sinceClear>>

(* ------------------------------ remove --------------------------------- *)
\* a remove that exchanges the snapshot whether or not it found the token
AfterScan_AlwaysSwap(removed) == "swaplock"

\* if removed { swap } else the block ends
AfterScan(removed) == IF removed THEN "swaplock" ELSE "drop_nd"

\* is_empty() early return; capacity = len - 1; the single-delegate case;
\* Array::with_capacity(capacity)?
RemoveCheck(t) ==
  /\ At(t, {"remove"}, "check")
  /\ \E granted \in BOOLEAN :
       LET f == Top(t)
           capacity == delegates.len - 1
           b == Buffer_new(heap, capacity, granted)
           hit == to_token(Slot(heap, delegates.buffer, 1)) = f.arg
       IN IF is_empty(delegates)
          THEN /\ heap' = heap
               /\ stack' = SetTop(t, [f EXCEPT !.res = "Ok", !.pc = "unlock_change"])
          ELSE IF capacity = 0
          THEN /\ heap' = heap
               /\ stack' = SetTop(t, [f EXCEPT !.cur = delegates, !.capacity = 0,
                                               !.removed = hit, !.pc = AfterScan(hit)])
          ELSE /\ heap' = b.heap
               /\ stack' = SetTop(t,
                    IF b.ok
                    THEN [f EXCEPT !.cur = delegates, !.capacity = capacity,
                                   !.nd = [buffer |-> b.ptr, len |-> 0],
                                   !.i = 0, !.pc = "loop"]
                    ELSE [f EXCEPT !.capacity = capacity,
                                   !.res = "E_OUTOFMEMORY", !.pc = "unlock_change"])
  /\ UNCHANGED <<delegates, swap, change, budget, refs,
                 expected, foreign, rmCount, maxOcc, sinceClear>>

\* a scan that skips every delegate with the token, not only the first
Matches_All(f, d) == to_token(d) = f.arg

\* if !removed && delegate.to_token() == token
Matches(f, d) == ~f.removed /\ to_token(d) = f.arg

\* one iteration of: for delegate in current_delegates.as_slice() { ... }
RemoveLoop(t) ==
  /\ At(t, {"remove"}, "loop")
  /\ LET f == Top(t)
         d == Slot(heap, f.cur.buffer, f.i + 1)
         more == f.i + 1 < f.cur.len
     IN IF Matches(f, d)
        THEN /\ heap' = heap
             /\ stack' = SetTop(t, [f EXCEPT !.removed = TRUE, !.i = f.i + 1,
                            !.pc = IF more THEN "loop" ELSE AfterScan(TRUE)])
        ELSE IF f.capacity = 0
        THEN /\ heap' = heap
             /\ stack' = SetTop(t, [f EXCEPT !.pc = AfterScan(f.removed)])
        ELSE /\ heap' = push_heap(heap, f.nd, d)
             /\ stack' = SetTop(t, [f EXCEPT !.nd = push_arr(f.nd),
                            !.capacity = f.capacity - 1, !.i = f.i + 1,
                            !.pc = IF more THEN "loop" ELSE AfterScan(f.removed)])
  /\ UNCHANGED <<delegates, swap, change, budget, refs,
                 expected, foreign, rmCount, maxOcc, sinceClear>>

(* ------------------------------ clear ---------------------------------- *)
\* a clear without the early return
ClearSkips_Never(a) == FALSE

\* if current_delegates.is_empty() { return; }
ClearSkips(a) == is_empty(a)

\* the early return; otherwise swap(Array::new()) follows
ClearCheck(t) ==
  /\ At(t, {"clear"}, "check")
  /\ stack' = SetTop(t,
       IF ClearSkips(delegates)
       THEN [Top(t) EXCEPT !.res = "Ok", !.pc = "unlock_change"]
       ELSE [Top(t) EXCEPT !.nd = Array_new, !.pc = "swaplock"])
  /\ UNCHANGED <<delegates, heap, swap, change, budget, refs,
                 expected, foreign, rmCount, maxOcc, sinceClear>>

(* ------------------------------ call ----------------------------------- *)
\* self.swap.lock()
CallLock(t) ==
  /\ At(t, {"call"}, "lock")
  /\ SwapFree
  /\ swap' = t
  /\ stack' = SetTop(t, [Top(t) EXCEPT !.pc = "clone", !.tookSwap = TRUE,
                                       !.seen = {Snapshot(heap, delegates)}])
  /\ UNCHANGED <<delegates, heap, change, budget, refs,
                 expected, foreign, rmCount, maxOcc, sinceClear>>

\* unsafe { &*self.delegates.get() }.clone()
CallClone(t) ==
  /\ At(t, {"call"}, "clone")
  /\ heap' = clone_heap(heap, delegates)
  /\ stack' = SetTop(t, [Top(t) EXCEPT !.pc = "unlock", !.nd = delegates,
                                       !.afterClear = sinceClear])
  /\ UNCHANGED <<delegates, swap, change, budget, refs,
                 expected, foreign, rmCount, maxOcc, sinceClear>>

\* a call that keeps the swap lock while it invokes the delegates
CallUnlock_KeepsSwap(t) ==
  /\ At(t, {"call"}, "unlock")
  /\ stack' = SetTop(t, [Top(t) EXCEPT !.i = 0,
                  !.pc = IF is_empty(Top(t).nd) THEN "drop_nd" ELSE "invoke"])
  /\ UNCHANGED <<delegates, heap, swap, change, budget, refs,
                 expected, foreign, rmCount, maxOcc, sinceClear>>

\* _swap_lock goes out of scope; the for loop starts
CallUnlock(t) ==
  /\ At(t, {"call"}, "unlock")
  /\ swap' = 0
  /\ stack' = SetTop(t, [Top(t) EXCEPT !.i = 0,
                  !.pc = IF is_empty(Top(t).nd) THEN "drop_nd" ELSE "invoke"])
  /\ UNCHANGED <<delegates, heap, change, budget, refs,
                 expected, foreign, rmCount, maxOcc, sinceClear>>

\* delegate.call(&mut callback): the callback (or resolve) answers `code`
CallInvoke(t) ==
  /\ At(t, {"call"}, "invoke")
  /\ \E code \in CallbackResults :
       LET f == Top(t)
           d == Slot(heap, f.nd.buffer, f.i + 1)
       IN stack' = SetTop(t, [f EXCEPT !.err = code, !.pc = "handle",
                     !.gone = IF code \in GoneCodes
                              THEN Append(f.gone, to_token(d)) ELSE f.gone])
  /\ UNCHANGED <<delegates, heap, swap, change, budget, refs,
                 expected, foreign, rmCount, maxOcc, sinceClear>>

\* a call that returns any error other than the three "gone" codes
OnResult_Abort(code) ==
  IF code = "Ok" THEN "next"
  ELSE IF code \in GoneCodes THEN "remove" ELSE "return"

\* a call whose matches! leaves out RPC_E_SERVER_UNAVAILABLE
OnResult_Miss(code) ==
  IF code = "Ok" THEN "next"
  ELSE IF code \in GoneCodes \ {"RPC_E_SERVER_UNAVAILABLE"} THEN "remove" ELSE "next"

\* a call that revokes the delegate after any error
OnResult_AnyError(code) == IF code = "Ok" THEN "next" ELSE "remove"

\* what call does with an invocation's result
OnResult(code) ==
  IF code = "Ok" THEN "next"
  ELSE IF code \in GoneCodes THEN "remove" ELSE "next"

Advance(c) ==
  [c EXCEPT !.i = c.i + 1, !.err = "none",
            !.pc = IF c.i + 1 < c.nd.len THEN "invoke" ELSE "drop_nd"]

\* if let Err(error) = ... { if matches!(error.code(), ...) { self.remove(token)?; } }
CallHandle(t) ==
  /\ At(t, {"call"}, "handle")
  /\ LET f == Top(t)
         d == Slot(heap, f.nd.buffer, f.i + 1)
         what == OnResult(f.err)
     IN /\ stack' =
             IF what = "next" THEN SetTop(t, Advance(f))
             ELSE IF what = "remove"
             THEN [stack EXCEPT ![t] =
                     Append([stack[t] EXCEPT ![Len(stack[t])] =
                               [f EXCEPT !.pc = "heal"]],
                            NewFrame("remove", to_token(d)))]
             ELSE SetTop(t, [f EXCEPT !.res = f.err, !.pc = "drop_nd"])
        /\ foreign' = (foreign \/ what = "remove")
  /\ UNCHANGED <<delegates, heap, swap, change, budget, refs,
                 expected, rmCount, maxOcc, sinceClear>>

\* lock_free_calls goes out of scope; the function returns
CallDrop(t) ==
  /\ At(t, {"call"}, "drop_nd")
  /\ heap' = drop_heap(heap, Top(t).nd)
  /\ stack' = SetTop(t, [Top(t) EXCEPT
                !.pc = "ret", !.nd = Array_new,
                !.res = IF Top(t).res = "pending" THEN "Ok" ELSE Top(t).res])
  /\ UNCHANGED <<delegates, swap, change, budget, refs,
                 expected, foreign, rmCount, maxOcc, sinceClear>>

(* ------------------------------ callbacks using the Event -------------- *)
\* the callback call is running calls add, remove, clear or call on the same
\* Event, on the thread that runs call
CallbackCalls(t) ==
  /\ At(t, {"call"}, "invoke")
  /\ Len(stack[t]) <= MaxNest
  /\ budget > 0
  /\ budget' = budget - 1
  /\ \E op \in Writers \cup {"call"} :
       \E arg \in IF op = "add" THEN Targets
                  ELSE IF op = "remove" THEN Tokens ELSE {0} :
         /\ stack' = [stack EXCEPT ![t] = Append(stack[t], NewFrame(op, arg))]
         /\ sinceClear' = IF op = "add" THEN "none" ELSE sinceClear
  /\ foreign' = TRUE
  /\ UNCHANGED <<delegates, heap, swap, change, refs, expected, rmCount, maxOcc>>

(* ------------------------------ returning ------------------------------ *)
Decrement(n) == IF n > 0 THEN n - 1 ELSE 0

\* the operation's result reaches its caller: the program, or call's `?`
Return(t) ==
  /\ stack[t] # <<>>
  /\ Top(t).pc = "ret"
  /\ LET f == Top(t)
         rest == SubSeq(stack[t], 1, Len(stack[t]) - 1)
         parent == rest[Len(rest)]
     IN IF rest = <<>>
        THEN /\ stack' = [stack EXCEPT ![t] = <<>>]
             /\ expected' =
                  IF f.op = "add" /\ f.res = "Ok"
                  THEN [expected EXCEPT ![f.tok] = @ + 1]
                  ELSE IF f.op = "remove" /\ f.res = "Ok"
                       THEN [expected EXCEPT ![f.arg] = Decrement(@)]
                       ELSE expected
             /\ sinceClear' = IF f.op # "clear" THEN sinceClear
                              ELSE IF f.swapped THEN "swapped" ELSE "noop"
        ELSE /\ stack' = [stack EXCEPT ![t] =
                  IF parent.pc = "heal"
                  THEN [rest EXCEPT ![Len(rest)] =
                          IF f.res = "Ok" THEN Advance(parent)
                          ELSE [parent EXCEPT !.res = f.res, !.pc = "drop_nd"]]
                  ELSE rest]    \* back in the callback that ran the operation
             /\ UNCHANGED <<expected, sinceClear>>
  /\ UNCHANGED <<delegates, heap, swap, change, budget, refs,
                 foreign, rmCount, maxOcc>>

(* ------------------------------ specifications ------------------------- *)
InitShared ==
  /\ delegates = Array_new
  /\ heap = [b \in 1..MaxBuf |-> FreeBlock]
  /\ swap = 0
  /\ change = 0
  /\ refs = 0
  /\ expected = [v \in Tokens |-> 0]
  /\ foreign = FALSE
  /\ rmCount = [v \in Tokens |-> 0]
  /\ maxOcc = [v \in Tokens |-> 0]
  /\ sinceClear = "none"

\* Event::new(), shared by the threads of Threads
Init ==
  /\ InitShared
  /\ stack = [t \in Threads |-> <<>>]
  /\ budget = MaxOps

\* Event::new(), used by one thread
InitSeq ==
  /\ InitShared
  /\ stack = [t \in {1} |-> <<>>]
  /\ budget = MaxOpsSeq

Next ==
  \/ \E t \in DOMAIN stack : StartAdd(t)
  \/ \E t \in DOMAIN stack : StartRemove(t)
  \/ \E t \in DOMAIN stack : StartClear(t)
  \/ \E t \in DOMAIN stack : StartCall(t)
  \/ \E t \in DOMAIN stack : LockChange(t)
  \/ \E t \in DOMAIN stack : LockSwap(t)
  \/ \E t \in DOMAIN stack : SwapBuffer(t)
  \/ \E t \in DOMAIN stack : SwapLen(t)
  \/ \E t \in DOMAIN stack : UnlockSwap(t)
  \/ \E t \in DOMAIN stack : DropNew(t)
  \/ \E t \in DOMAIN stack : UnlockChange(t)
  \/ \E t \in DOMAIN stack : DropLockFree(t)
  \/ \E t \in DOMAIN stack : AddAlloc(t)
  \/ \E t \in DOMAIN stack : AddCopy(t)
  \/ \E t \in DOMAIN stack : AddNew(t)
  \/ \E t \in DOMAIN stack : RemoveCheck(t)
  \/ \E t \in DOMAIN stack : RemoveLoop(t)
  \/ \E t \in DOMAIN stack : ClearCheck(t)
  \/ \E t \in DOMAIN stack : CallLock(t)
  \/ \E t \in DOMAIN stack : CallClone(t)
  \/ \E t \in DOMAIN stack : CallUnlock(t)
  \/ \E t \in DOMAIN stack : CallInvoke(t)
  \/ \E t \in DOMAIN stack : CallHandle(t)
  \/ \E t \in DOMAIN stack : CallDrop(t)
  \/ \E t \in DOMAIN stack : Return(t)

Spec == Init /\ [][Next]_vars
SpecSeq == InitSeq /\ [][Next]_vars

\* Event::new(), shared by the threads of Threads, whose callbacks may use it
InitFair ==
  /\ InitShared
  /\ stack = [t \in Threads |-> <<>>]
  /\ budget = MaxOpsFair

NextRe ==
  \/ Next
  \/ \E t \in DOMAIN stack : CallbackCalls(t)

\* the steps of the Event's own code on thread t: all but the start of an
\* operation and the callback's return
Step(t) ==
  \/ LockChange(t) \/ LockSwap(t) \/ SwapBuffer(t) \/ SwapLen(t)
  \/ UnlockSwap(t) \/ DropNew(t) \/ UnlockChange(t) \/ DropLockFree(t)
  \/ AddAlloc(t) \/ AddCopy(t) \/ AddNew(t)
  \/ RemoveCheck(t) \/ RemoveLoop(t) \/ ClearCheck(t)
  \/ CallLock(t) \/ CallClone(t) \/ CallUnlock(t) \/ CallHandle(t)
  \/ CallDrop(t) \/ Return(t)

\* every thread keeps being scheduled; callbacks may never return
SpecStuck ==
  InitFair /\ [][NextRe]_vars /\ \A t \in Threads : WF_vars(Step(t))

\* every thread keeps being scheduled and every callback returns
SpecFair ==
  /\ InitFair /\ [][NextRe]_vars
  /\ \A t \in Threads : WF_vars(Step(t)) /\ WF_vars(CallInvoke(t))

TypeOK ==
  /\ swap \in {0} \cup DOMAIN stack
  /\ change \in {0} \cup DOMAIN stack
  /\ budget >= 0

(* ------------------------------ claims --------------------------------- *)
Frames == {<<t, k>> : t \in DOMAIN stack, k \in 1..MaxDepth} 
FrameAt(tk) == stack[tk[1]][tk[2]]
Live == {tk \in Frames : tk[2] <= Len(stack[tk[1]])}
Current == as_slice(heap, delegates)
Quiescent == \A t \in DOMAIN stack : stack[t] = <<>>

\* C1: the delegates a call iterates are, handle and contents, one snapshot
\* that was the registry's current one at an instant at which the call held
\* the swap lock; never a mix of two snapshots, never a partly built one.
C1_CallIteratesOneSnapshot ==
  \A tk \in Live :
    LET f == FrameAt(tk) IN
      (f.op = "call" /\ f.pc \in {"unlock", "invoke", "handle", "heal", "drop_nd"})
        => \E s \in f.seen : s.arr = f.nd /\ s.items = as_slice(heap, f.nd)

\* C1 witness: a call is iterating a snapshot that a writer of another
\* thread has replaced since the clone was taken.
C1_Witness ==
  \E tk \in Live :
    LET f == FrameAt(tk) IN
      /\ f.op = "call" /\ f.pc = "invoke" /\ f.nd.len >= 1
      /\ delegates.buffer # f.nd.buffer
      /\ \E u \in DOMAIN stack :
            u # tk[1] /\ stack[u] # <<>> /\ Top(u).op \in Writers /\ Top(u).swapped

\* the Array handles that reference block b: the registry's, and the locals
\* new_delegates / lock_free_calls / _lock_free_drop of running operations
Handles(b) ==
  (IF delegates.buffer = b THEN 1 ELSE 0)
  + Cardinality({tk \in Live : FrameAt(tk).nd.buffer = b})
  + Cardinality({tk \in Live : FrameAt(tk).lfd.buffer = b})

\* C2: a block's reference count equals the number of live Array handles
\* pointing to it, so that no block is freed while a handle references it
\* and none is freed twice. (Violated: a block no handle references stays
\* allocated with count 1.)
C2_RefCountEqualsHandles ==
  \A b \in DOMAIN heap :
    IF heap[b].live THEN heap[b].rc = Handles(b) ELSE Handles(b) = 0

RECURSIVE SumOver(_, _)
SumOver(f, S) ==
  IF S = {} THEN 0
  ELSE LET v == CHOOSE v \in S : TRUE IN f[v] + SumOver(f, S \ {v})

\* C3: once every operation has returned and the threads worked on disjoint
\* targets (add and remove only, call beside them), the current snapshot
\* holds exactly the registrations add returned and remove did not revoke.
C3_NoLostUpdate ==
  (Quiescent /\ ~foreign) =>
    /\ \A v \in Tokens : Count(Current, v) = expected[v]
    /\ delegates.len = SumOver(expected, Tokens)

\* C3 witness: both threads registered their own target, one registration
\* was revoked again, and everything has returned.
C3_Witness ==
  /\ Quiescent /\ ~foreign /\ budget = 0
  /\ \A x \in Targets : \E k \in 1..Len(Current) : TokenOwner(to_token(Current[k])) = Owner(x)
  /\ \E v \in Tokens : rmCount[v] >= 1 /\ expected[v] >= 1

OtherError(f) ==
  f.op = "call" /\ f.pc = "handle" /\ f.err \notin GoneCodes \cup {"Ok"}

\* C4 as claimed: an invocation error outside the "gone" codes stops the
\* iteration at that delegate and is what call returns.
C4_Orig_OtherErrorStopsCall ==
  [][\A t \in DOMAIN stack :
       (stack[t] # <<>> /\ OtherError(Top(t)) /\ stack'[t] # stack[t])
         => LET g == stack'[t][Len(stack'[t])] IN
              g.pc = "drop_nd" /\ g.res = Top(t).err]_vars

\* C4 amended: an invocation error outside the "gone" codes is discarded; the
\* iteration goes on with the next delegate, the registry is left alone, and
\* what call returns is never a callback's error (it is success, or the
\* allocation error of a remove it ran for a delegate that is gone).
C4_OtherErrorIgnored ==
  /\ [](\A tk \in Live :
          (FrameAt(tk).op = "call" /\ FrameAt(tk).pc = "ret")
            => FrameAt(tk).res \in {"Ok", "E_OUTOFMEMORY"})
  /\ [][\A t \in DOMAIN stack :
          (stack[t] # <<>> /\ OtherError(Top(t)) /\ stack'[t] # stack[t])
            => LET f == Top(t)
                   g == stack'[t][Len(stack'[t])]
               IN /\ Len(stack'[t]) = Len(stack[t])
                  /\ g.i = f.i + 1
                  /\ g.res = "pending"
                  /\ g.pc = IF f.i + 1 < f.nd.len THEN "invoke" ELSE "drop_nd"
                  /\ delegates' = delegates]_vars

\* C4 witness: an invocation has failed with E_FAIL and the snapshot holds
\* further delegates after it.
C4_Witness ==
  \E tk \in Live :
    OtherError(FrameAt(tk)) /\ FrameAt(tk).i + 1 < FrameAt(tk).nd.len

\* the snapshot a call cloned, and how often a token's invocation said "gone"
Iterated(f) == (CHOOSE s \in f.seen : TRUE).items
Goners(f, v) == Cardinality({k \in 1..Len(f.gone) : f.gone[k] = v})
Returned(f, op) == f.op = op /\ f.pc = "ret"

\* C5 as claimed: after a call in which invocations failed with a "gone"
\* code, those delegates' tokens are absent from the registry, every
\* delegate of the snapshot was invoked, and call reports success.
C5_Orig_GoneRemovedCallSucceeds ==
  \A tk \in Live :
    LET f == FrameAt(tk) IN
      (Returned(f, "call") /\ f.gone # <<>>) =>
        /\ f.res = "Ok"
        /\ f.i = Len(Iterated(f))
        /\ \A k \in 1..Len(f.gone) : ~HasToken(Current, f.gone[k])

\* C5 amended: each "gone" failure makes call run remove with the delegate's
\* token, which revokes one registration carrying that token. When call
\* reports success every delegate of the snapshot was invoked and one
\* registration per failure is revoked; otherwise that remove failed to
\* allocate (two or more delegates were registered), call stopped at that
\* delegate and returned the out-of-memory error, and the delegate is still
\* registered.
C5_GoneRevokedOrAllocFails ==
  \A tk \in Live :
    LET f == FrameAt(tk)
        last == f.gone[Len(f.gone)]
    IN (Returned(f, "call") /\ f.gone # <<>>) =>
         IF f.res = "Ok"
         THEN /\ f.i = Len(Iterated(f))
              /\ \A v \in Tokens :
                   Count(Current, v) = Count(Iterated(f), v) - Goners(f, v)
         ELSE /\ f.res = "E_OUTOFMEMORY"
              /\ f.i < Len(Iterated(f))
              /\ Len(Current) >= 2
              /\ HasToken(Current, last)
              /\ \A v \in Tokens :
                   Count(Current, v) = Count(Iterated(f), v) - Goners(f, v)
                                       + (IF v = last THEN 1 ELSE 0)

\* C5 witness: call returned success after its first delegate's invocation
\* said "gone" and a later delegate of the snapshot was still invoked.
C5_Witness ==
  \E tk \in Live :
    LET f == FrameAt(tk) IN
      /\ Returned(f, "call") /\ f.res = "Ok" /\ Len(f.gone) = 1
      /\ Len(Iterated(f)) >= 2
      /\ f.gone[1] = to_token(Iterated(f)[1])
      /\ ~HasToken(Current, f.gone[1])

\* the frame holds the change lock and has not locked swap
Building(f) ==
  /\ f.pc \in {"alloc", "copy", "new", "check", "loop", "swaplock", "drop_nd",
               "unlock_change"}
  /\ ~f.tookSwap
Untouched(f) == delegates = f.before.arr /\ Current = f.before.items

\* C6 as claimed: remove returns success in every case, and with a token no
\* registered delegate carries it leaves the snapshot alone.
C6_Orig_RemoveNeverFails ==
  \A tk \in Live :
    LET f == FrameAt(tk) IN
      Returned(f, "remove") =>
        /\ f.res = "Ok"
        /\ ~HasToken(f.before.items, f.arg) => ~f.swapped

\* C6 amended: remove returns success unless the allocation of the
\* replacement buffer fails, which can happen only when two or more delegates
\* are registered; it then returns the out-of-memory error and has not
\* touched the snapshot. With a token no registered delegate carries it
\* never locks swap and leaves the snapshot the same buffer.
C6_RemoveFailsOnlyOnAlloc ==
  \A tk \in Live :
    LET f == FrameAt(tk) IN
      f.op = "remove" =>
        /\ f.res \in {"pending", "Ok", "E_OUTOFMEMORY"}
        /\ f.pc = "ret" => f.res # "pending"
        /\ f.res = "E_OUTOFMEMORY" =>
             Len(f.before.items) >= 2 /\ ~f.tookSwap /\ ~f.swapped
        /\ (f.pc # "lock" /\ ~HasToken(f.before.items, f.arg)) =>
             ~f.tookSwap /\ ~f.swapped
        /\ Building(f) => Untouched(f)

\* C6 witness: a remove of the token that is never issued has returned the
\* out-of-memory error.
C6_Witness ==
  \E tk \in Live :
    LET f == FrameAt(tk) IN
      /\ Returned(f, "remove") /\ f.res = "E_OUTOFMEMORY"
      /\ \A x \in Targets \ Agile : f.arg = EncodePointer(TargetPtr(x))

\* C7: an add that returns an error never locked swap and left the snapshot
\* the same buffer with the same delegates; an add that exchanges the
\* snapshot publishes the previous sequence followed by the new delegate,
\* whose token it returns; add returns success exactly when it exchanged.
C7_AddAllOrNothing ==
  \A tk \in Live :
    LET f == FrameAt(tk)
        n == Len(Current)
    IN f.op = "add" =>
         /\ f.res \in {"pending", "Ok", "E_OUTOFMEMORY", "E_NOINTERFACE"}
         /\ f.res \notin {"pending", "Ok"} => ~f.tookSwap /\ ~f.swapped
         /\ Building(f) => Untouched(f)
         /\ (f.swapped /\ f.pc \in {"unlock_swap", "unlock_change"}) =>
              /\ n = Len(f.before.items) + 1
              /\ SubSeq(Current, 1, n - 1) = f.before.items
              /\ to_token(Current[n]) = f.tok
              /\ Current[n].kind = IF f.arg \in Agile THEN "Direct" ELSE "Indirect"
              /\ f.arg \in Agile => Current[n] = Direct(f.arg)
         /\ f.pc = "ret" => (f.res = "Ok" <=> f.swapped)

\* C7 witness: an add to a registry that holds a delegate failed to wrap its
\* target and is about to release the change lock.
C7_Witness ==
  \E tk \in Live :
    LET f == FrameAt(tk) IN
      /\ f.op = "add" /\ f.pc = "unlock_change" /\ f.res = "E_NOINTERFACE"
      /\ Len(f.before.items) >= 1

RECURSIVE RemoveFirst(_, _)
RemoveFirst(s, v) ==
  IF s = <<>> THEN <<>>
  ELSE IF to_token(Head(s)) = v THEN Tail(s)
       ELSE <<Head(s)>> \o RemoveFirst(Tail(s), v)

\* C8: a remove that finds the token publishes the previous sequence without
\* its first delegate carrying the token, the others in their order; a
\* remove that finds none never locks swap and leaves the snapshot the same
\* buffer.
C8_RemoveFirstMatch ==
  \A tk \in Live :
    LET f == FrameAt(tk) IN
      f.op = "remove" =>
        /\ (f.pc = "swaplock" \/ f.tookSwap) => HasToken(f.before.items, f.arg)
        /\ (f.swapped /\ f.pc \in {"unlock_swap", "unlock_change"}) =>
             Current = RemoveFirst(f.before.items, f.arg)
        /\ (f.pc \in {"drop_nd", "unlock_change", "drop_lfd", "ret"}
              /\ ~f.tookSwap /\ f.res # "E_OUTOFMEMORY") =>
             ~HasToken(f.before.items, f.arg)
        /\ Building(f) => Untouched(f)

\* C8 witness: a remove has published the rest of a three-delegate snapshot
\* whose first match was the middle one.
C8_Witness ==
  \E tk \in Live :
    LET f == FrameAt(tk) IN
      /\ f.op = "remove" /\ f.swapped /\ f.pc = "unlock_swap"
      /\ Len(f.before.items) = 3
      /\ to_token(f.before.items[1]) # f.arg
      /\ to_token(f.before.items[2]) = f.arg

\* C9 as claimed: the remove(token) calls made since the token was last
\* added remove at most one delegate in total.
C9_Orig_AtMostOneRemoved ==
  \A v \in Tokens : rmCount[v] <= 1

\* C9 amended: the remove(token) calls made since the token was last added
\* remove in total at most as many delegates as registrations carried the
\* token then: at most one for a token registered once (the other remove is
\* a no-op), one each when the same agile target is registered twice.
C9_AtMostRegisteredRemoved ==
  \A v \in Tokens : rmCount[v] <= maxOcc[v]

\* C9 witness: two threads are in remove with the same token; one found and
\* removed the delegate, the other found none.
C9_Witness ==
  \E t \in DOMAIN stack : \E u \in DOMAIN stack :
    /\ t # u /\ stack[t] # <<>> /\ stack[u] # <<>>
    /\ Top(t).op = "remove" /\ Top(u).op = "remove" /\ Top(t).arg = Top(u).arg
    /\ Top(t).swapped
    /\ Top(u).pc \in {"drop_nd", "unlock_change"} /\ ~Top(u).tookSwap
    /\ Top(u).res # "E_OUTOFMEMORY"

\* C10: a clear that finds the registry empty never locks swap and leaves
\* the snapshot alone; a clear that finds delegates publishes the empty
\* snapshot; a call that clones after a clear returned, no add having
\* started since, invokes no delegate.
C10_ClearEmptiesOrSkips ==
  \A tk \in Live :
    LET f == FrameAt(tk) IN
      /\ (f.op = "clear" /\ f.pc \notin {"lock", "check"}) =>
           IF f.before.items = <<>>
           THEN ~f.tookSwap /\ ~f.swapped /\ f.res = "Ok" /\ delegates = f.before.arr
           ELSE /\ f.pc = "swaplock" \/ f.tookSwap
                /\ f.swapped => delegates = Array_new
                /\ f.pc = "ret" => f.swapped /\ f.res = "Ok"
      /\ (f.op = "call" /\ f.afterClear # "none" /\ f.pc \notin {"lock", "clone"}) =>
           /\ f.nd = Array_new
           /\ f.pc \in {"unlock", "drop_nd", "ret"}
           /\ f.i = 0 /\ f.err = "none"

\* C10 witness: a call cloned the snapshot after a clear that had found
\* delegates returned, and is about to return.
C10_Witness ==
  \E tk \in Live :
    LET f == FrameAt(tk) IN
      f.op = "call" /\ f.afterClear = "swapped" /\ f.pc = "drop_nd"

\* thread t is inside a callback that call invoked
InCallback(t) == At(t, {"call"}, "invoke")
Busy(t) == stack[t] # <<>>

\* C11: while call invokes a callback the calling thread holds neither the
\* swap lock nor the change lock; so, callbacks being free never to return,
\* every operation of every thread still returns or arrives in a callback
\* of its own.
C11_CallbackOutsideLocks ==
  /\ [](\A t \in Threads : InCallback(t) => swap # t /\ change # t)
  /\ \A t \in Threads : Busy(t) ~> (~Busy(t) \/ InCallback(t))

\* C11 witness: a thread is inside a callback, and since it cloned the
\* snapshot a writer of another thread has replaced it and returned.
C11_Witness ==
  \E t \in Threads : \E u \in Threads :
    /\ t # u /\ InCallback(t) /\ Len(stack[t]) = 1
    /\ Top(t).nd.buffer # delegates.buffer
    /\ Busy(u) /\ Top(u).op \in Writers /\ Top(u).pc = "ret" /\ Top(u).swapped

\* the thread's outermost operation is call
InCall(t) == Busy(t) /\ stack[t][1].op = "call"
\* the thread is at self.change.lock()
WantsChange(t) == Busy(t) /\ Top(t).op \in Writers /\ Top(t).pc = "lock"

\* C12 as claimed: a thread that is in call never holds the change lock and
\* never waits for it.
C12_Orig_CallNeverTouchesChange ==
  \A t \in DOMAIN stack : InCall(t) => change # t /\ ~WantsChange(t)

\* C12 amended: call itself never locks change: it holds the swap lock, and
\* only that, while it clones the snapshot, and no lock while it invokes.
\* It requests the change lock (and then the swap lock) only inside the
\* remove it runs for a delegate whose invocation failed with one of the
\* three "gone" codes, with that delegate's token.
C12_CallLocksChangeOnlyToRevoke ==
  \A t \in DOMAIN stack :
    InCall(t) =>
      LET c == stack[t][1] IN
        /\ Len(stack[t]) = 1 =>
             /\ change # t /\ ~WantsChange(t)
             /\ swap = t <=> c.pc \in {"clone", "unlock"}
        /\ (change = t \/ WantsChange(t) \/ Len(stack[t]) > 1) =>
             /\ Len(stack[t]) = 2
             /\ c.pc = "heal" /\ c.err \in GoneCodes
             /\ Top(t).op = "remove"
             /\ Top(t).arg = to_token(Slot(heap, c.nd.buffer, c.i + 1))

\* C12 witness: a thread in call waits for the change lock, which another
\* thread holds, to revoke a delegate that is gone.
C12_Witness ==
  \E t \in DOMAIN stack :
    /\ InCall(t) /\ WantsChange(t) /\ stack[t][1].err \in GoneCodes
    /\ change # 0 /\ change # t

\* C13: a writer requests the swap lock only while it holds the change
\* lock, releases the change lock only after the swap lock, and never
\* requests the change lock while it holds the swap lock; after an early or
\* error return it holds neither.
C13_ChangeBeforeSwap ==
  /\ [](\A t \in DOMAIN stack :
          (Busy(t) /\ Top(t).op \in Writers) =>
            /\ swap = t => change = t
            /\ Top(t).pc = "lock" => swap # t /\ change # t
            /\ Top(t).pc = "swaplock" => change = t /\ swap # t
            /\ Top(t).pc \in {"drop_lfd", "ret"} => swap # t /\ change # t
            /\ Top(t).res \notin {"pending", "Ok"} => swap # t
            /\ (Top(t).pc = "unlock_change" /\ ~Top(t).swapped) => ~Top(t).tookSwap)
  /\ [][\A t \in DOMAIN stack :
          /\ (Busy(t) /\ Top(t).op \in Writers /\ swap # t /\ swap' = t)
                => change = t /\ change' = t
          /\ (change = t /\ change' # t) => swap # t /\ swap' # t
          /\ (change # t /\ change' = t) => swap # t /\ swap' # t]_vars

\* C13 witness: a remove that found its token holds both locks after the
\* exchange while an add of another thread has returned an error.
C13_Witness ==
  \E t \in DOMAIN stack : \E u \in DOMAIN stack :
    /\ t # u /\ Busy(t) /\ Busy(u)
    /\ Top(t).op = "remove" /\ Top(t).pc = "unlock_swap" /\ swap = t /\ change = t
    /\ Top(u).op = "add" /\ Top(u).pc = "ret" /\ Top(u).res # "Ok"

\* the frame has exchanged the snapshot and still owns the old one
HoldsOld(f) ==
  /\ f.op \in Writers /\ f.swapped /\ ~is_empty(f.lfd)
  /\ f.pc \in {"unlock_swap", "unlock_change", "drop_lfd"}

\* C15: the snapshot a writer replaced stays whole, its count not yet
\* decremented for the writer's handle, until the writer has released the
\* swap lock and the change lock; the writer releases it holding neither
\* lock, and that release frees the buffer exactly when no clone of a call
\* still references it (otherwise it only decrements the count).
C15_OldSnapshotDroppedOutsideLocks ==
  /\ [](\A t \in DOMAIN stack :
          (Busy(t) /\ HoldsOld(Top(t))) =>
            LET f == Top(t) IN
              /\ f.lfd = f.before.arr
              /\ heap[f.lfd.buffer].live /\ heap[f.lfd.buffer].rc >= 1
              /\ heap[f.lfd.buffer].rc = Handles(f.lfd.buffer)
              /\ as_slice(heap, f.lfd) = f.before.items
              /\ f.pc = "drop_lfd" => swap # t /\ change # t)
  /\ [][\A t \in DOMAIN stack :
          (Busy(t) /\ HoldsOld(Top(t)) /\ stack'[t] # stack[t]
             /\ is_empty(stack'[t][Len(stack[t])].lfd)) =>
            LET b == Top(t).lfd.buffer IN
              /\ swap # t /\ change # t
              /\ IF Handles(b) = 1
                 THEN ~heap'[b].live
                 ELSE /\ heap'[b].live
                      /\ heap'[b].rc = heap[b].rc - 1
                      /\ heap'[b].slots = heap[b].slots]_vars

\* C15 witness: a writer has released the snapshot it replaced while a call
\* of another thread still iterates a clone of it; the buffer is intact.
C15_Witness ==
  \E t \in DOMAIN stack : \E u \in DOMAIN stack :
    /\ t # u /\ Busy(t) /\ Busy(u)
    /\ Top(t).op \in Writers /\ Top(t).swapped /\ Top(t).pc = "ret"
    /\ ~is_empty(Top(t).before.arr)
    /\ Top(u).op = "call" /\ Top(u).pc = "invoke"
    /\ Top(u).nd = Top(t).before.arr
    /\ heap[Top(u).nd.buffer].live
    /\ as_slice(heap, Top(u).nd) = Top(t).before.items

\* the remove frame's scan ended without a match: the inner block ends
NoMatch(f) == f.op = "remove" /\ f.pc = "drop_nd"

\* C16 as claimed: when remove finds no delegate with the token, the new
\* snapshot it is about to discard is empty and was never allocated,
\* whatever the registry's length.
C16_Orig_NoMatchNeverAllocates ==
  \A t \in DOMAIN stack :
    (Busy(t) /\ NoMatch(Top(t))) => Top(t).nd = Array_new

\* C16 amended: when remove finds no delegate with the token it does not
\* lock swap and leaves the registry as it was. The new snapshot it discards
\* is empty and never allocated only if the registry holds one delegate (for
\* an empty registry none is created); with n >= 2 delegates it is a buffer
\* of capacity n - 1, allocated by this remove and filled with copies of the
\* first n - 1 delegates, and it is dropped, which frees that buffer, while
\* the change lock is still held.
C16_NoMatchDiscardsCopy ==
  /\ [](\A t \in DOMAIN stack :
          (Busy(t) /\ Top(t).op = "remove") =>
            LET f == Top(t)
                n == Len(f.before.items)
            IN /\ (f.pc = "unlock_change" /\ n = 0) => f.nd = Array_new /\ ~f.swapped
               /\ NoMatch(f) =>
                    /\ ~HasToken(f.before.items, f.arg)
                    /\ ~f.tookSwap /\ Untouched(f)
                    /\ change = t /\ swap # t
                    /\ n >= 1
                    /\ IF n = 1 THEN f.nd = Array_new
                       ELSE /\ f.nd.buffer \in DOMAIN heap
                            /\ f.nd.buffer # delegates.buffer
                            /\ heap[f.nd.buffer].live
                            /\ heap[f.nd.buffer].cap = n - 1
                            /\ heap[f.nd.buffer].rc = 1
                            /\ f.nd.len = n - 1
                            /\ as_slice(heap, f.nd) = SubSeq(f.before.items, 1, n - 1))
  /\ [][\A t \in DOMAIN stack :
          (Busy(t) /\ NoMatch(Top(t)) /\ stack'[t] # stack[t]) =>
            /\ change = t /\ change' = t
            /\ delegates' = delegates
            /\ ~is_empty(Top(t).nd) => ~heap'[Top(t).nd.buffer].live]_vars

\* C16 witness: a remove has scanned three delegates, found none with its
\* token, and is about to discard the two copies it made.
C16_Witness ==
  \E t \in DOMAIN stack :
    /\ Busy(t) /\ NoMatch(Top(t))
    /\ Len(Top(t).before.items) = 3 /\ Top(t).nd.len = 2

\* the frame is between change.lock() and the release of the change lock
InBuild(f) ==
  /\ f.op \in Writers
  /\ f.pc \in {"alloc", "copy", "new", "check", "loop", "swaplock", "swap_buf",
               "swap_len", "unlock_swap", "drop_nd", "unlock_change"}
\* the frame's next step reads self.delegates (len(), is_empty(), as_slice(),
\* clone()), or writes it (Array::swap)
ReadsField(f) ==
  \/ f.op \in Writers /\ f.pc \in {"alloc", "copy", "check", "loop"}
  \/ f.op = "call" /\ f.pc = "clone"
WritesField(f) == f.op \in Writers /\ f.pc \in {"swap_buf", "swap_len"}

\* C17: at most one thread is between locking and releasing change; a
\* thread about to write the registry's snapshot field holds the change
\* lock and the swap lock, a thread about to read it holds one of them; no
\* thread is about to read or write it while another is writing it; and the
\* field changes only in a step of a thread that holds both locks.
C17_FieldAccessUnderLocks ==
  /\ [](/\ Cardinality({t \in DOMAIN stack : Busy(t) /\ InBuild(Top(t))}) <= 1
        /\ \A t \in DOMAIN stack :
             Busy(t) =>
               /\ InBuild(Top(t)) => change = t
               /\ WritesField(Top(t)) => change = t /\ swap = t
               /\ ReadsField(Top(t)) => change = t \/ swap = t
               /\ WritesField(Top(t)) =>
                    \A u \in DOMAIN stack \ {t} :
                      Busy(u) => ~ReadsField(Top(u)) /\ ~WritesField(Top(u)))
  /\ [][delegates' # delegates =>
          \E t \in DOMAIN stack :
            /\ Busy(t) /\ WritesField(Top(t)) /\ stack'[t] # stack[t]
            /\ change = t /\ swap = t /\ change' = t /\ swap' = t]_vars

\* C17 witness: a writer is in the middle of the exchange (buffer written,
\* length not yet) while a call of another thread waits for the swap lock.
C17_Witness ==
  \E t \in DOMAIN stack : \E u \in DOMAIN stack :
    /\ t # u /\ Busy(t) /\ Busy(u)
    /\ Top(t).pc = "swap_len" /\ delegates.len # Top(t).nd.len
    /\ Top(u).op = "call" /\ Top(u).pc = "lock"

\* block b is, or was and is not yet freed, a snapshot of the registry
Installed(b) == heap[b].live /\ heap[b].pub >= 0
\* the frame's next step is an Array::push into its new_delegates
Pushes(f) ==
  \/ f.op = "add" /\ f.pc \in {"copy", "new"}
  \/ f.op = "remove" /\ f.pc = "loop"

\* C18: from the exchange that publishes a buffer until the buffer is freed,
\* its delegate slots are never written and every handle to it (the
\* registry's, a call's clone, a writer's _lock_free_drop) carries the
\* length it was published with; a writer pushes only into a buffer it
\* allocated itself, that was never published and that no other handle
\* references.
C18_PublishedImmutable ==
  /\ [](\A b \in DOMAIN heap :
          Installed(b) =>
            /\ Len(heap[b].slots) = heap[b].pub
            /\ heap[b].pub >= 1
            /\ delegates.buffer = b => delegates.len = heap[b].pub
            /\ \A tk \in Live :
                 LET f == FrameAt(tk) IN
                   /\ f.lfd.buffer = b => f.lfd.len = heap[b].pub
                   /\ (f.op = "call" /\ f.nd.buffer = b) => f.nd.len = heap[b].pub
                   /\ (Pushes(f) \/ f.pc = "swaplock") => f.nd.buffer # b)
  /\ [](\A t \in DOMAIN stack :
          (Busy(t) /\ Pushes(Top(t))) =>
            LET b == Top(t).nd.buffer IN
              /\ b \in DOMAIN heap /\ heap[b].live /\ heap[b].pub = -1
              /\ heap[b].rc = 1 /\ Handles(b) = 1
              /\ Len(heap[b].slots) = Top(t).nd.len)
  /\ [][\A b \in DOMAIN heap :
          (Installed(b) /\ heap'[b].live) =>
            /\ heap'[b].slots = heap[b].slots
            /\ heap'[b].pub = heap[b].pub
            /\ heap'[b].cap = heap[b].cap]_vars

\* C18 witness: an add is copying the current snapshot into its own buffer
\* while a call of another thread iterates the same snapshot.
C18_Witness ==
  \E t \in DOMAIN stack : \E u \in DOMAIN stack :
    /\ t # u /\ Busy(t) /\ Busy(u)
    /\ Top(t).op = "add" /\ Top(t).pc = "copy" /\ Top(t).i >= 1
    /\ Top(u).op = "call" /\ Top(u).pc = "invoke"
    /\ Top(u).nd.buffer = delegates.buffer /\ Installed(delegates.buffer)

\* Array a, unless empty, refers to an allocated buffer that has room for it
Fits(a) ==
  ~is_empty(a) =>
    /\ a.buffer \in DOMAIN heap /\ heap[a.buffer].live
    /\ a.len <= heap[a.buffer].cap
\* a writer is between the two assignments of Array::swap
MidSwap == \E tk \in Live : FrameAt(tk).pc = "swap_len"

\* C19: every buffer holds at most as many delegates as it was allocated
\* for, and every Array (the registry's outside the exchange itself, every
\* local of a running operation) has a length within its buffer's capacity.
\* A push finds an allocated buffer with a slot to spare: add builds in a
\* buffer of capacity old length + 1 and has pushed exactly that many when
\* it locks swap; remove builds in a buffer of capacity old length - 1,
\* stops pushing once the capacity is used up, and ends its scan with at
\* most old length - 1 delegates pushed, with or without a match.
C19_LengthWithinCapacity ==
  /\ [](\A b \in DOMAIN heap :
          heap[b].live => heap[b].cap >= 1 /\ Len(heap[b].slots) <= heap[b].cap)
  /\ [](/\ ~MidSwap => Fits(delegates)
        /\ \A tk \in Live :
             /\ FrameAt(tk).pc # "swap_len" => Fits(FrameAt(tk).nd)
             /\ Fits(FrameAt(tk).lfd))
  /\ [](\A t \in DOMAIN stack :
          Busy(t) =>
            LET f == Top(t)
                n == Len(f.before.items)
                b == f.nd.buffer
            IN /\ (f.op = "add" /\ f.pc \in {"copy", "new", "swaplock"}) =>
                    /\ b \in DOMAIN heap /\ heap[b].live
                    /\ heap[b].cap = n + 1
                    /\ f.pc = "copy" => f.nd.len < n
                    /\ f.pc = "new" => f.nd.len = n
                    /\ f.pc = "swaplock" => f.nd.len = n + 1
               /\ (f.op = "remove" /\ f.pc = "loop") =>
                    /\ b \in DOMAIN heap /\ heap[b].live
                    /\ heap[b].cap = n - 1
                    /\ f.capacity >= 0
                    /\ f.nd.len + f.capacity = n - 1
               /\ (f.op = "remove" /\ f.pc \in {"swaplock", "drop_nd"}) =>
                    /\ n >= 1 /\ f.nd.len <= n - 1
                    /\ f.pc = "swaplock" => f.nd.len = n - 1)
  /\ [][\A b \in DOMAIN heap :
          (heap[b].live /\ heap'[b].live /\ heap'[b].slots # heap[b].slots) =>
            /\ Len(heap[b].slots) < heap[b].cap
            /\ Len(heap'[b].slots) = Len(heap[b].slots) + 1
            /\ heap'[b].cap = heap[b].cap]_vars

\* C19 witness: a remove that found no match among the first two of three
\* delegates has used up its capacity of two and is at the third.
C19_Witness ==
  \E t \in DOMAIN stack :
    /\ Busy(t) /\ Top(t).op = "remove" /\ Top(t).pc = "loop"
    /\ Len(Top(t).before.items) = 3 /\ Top(t).i = 2
    /\ ~Top(t).removed /\ Top(t).capacity = 0 /\ Top(t).nd.len = 2

\* C20: once every operation has returned (no clone, no local Array is
\* left), dropping the Event, that is its delegates Array, leaves no buffer
\* allocated. (Violated: the buffer of an add whose Delegate::new failed on
\* an empty registry is dropped with length 0 and never freed.)
C20_NoBufferLeaks ==
  Quiescent => \A b \in DOMAIN heap : ~drop_heap(heap, delegates)[b].live

\* C14: a thread that returned from an operation, and one that is not in
\* any, holds neither lock; and when threads are scheduled fairly and
\* callbacks return, every thread that is in an operation comes out of all
\* its operations, those its callbacks started and the remove call runs for
\* a delegate that is gone included.
C14_EveryOperationReturns ==
  /\ [](\A t \in Threads :
          (~Busy(t) \/ Top(t).pc = "ret") => swap # t /\ change # t)
  /\ \A t \in Threads : Busy(t) ~> ~Busy(t)

\* C14 witness: an add that a callback started, inside a call of the same
\* thread, has exchanged the snapshot and holds both locks.
C14_Witness ==
  \E t \in Threads :
    /\ Len(stack[t]) = 2 /\ stack[t][1].op = "call" /\ stack[t][1].pc = "invoke"
    /\ Top(t).op = "add" /\ Top(t).swapped /\ change = t /\ swap = t
====
